---- MODULE Spec2Model ----
(***************************************************************************)
(* Model of core/src/retransmit_stage.rs: the shred dedup filter           *)
(* (should_skip_retransmit over an LruCache and a PacketHasher), the       *)
(* first-shred tracker (check_if_first_shred_received) and the hasher      *)
(* rekey (maybe_reset_shreds_received_cache), as they are driven by the    *)
(* retransmitter worker threads.                                           *)
(*                                                                         *)
(* The specifications share the variables:                                 *)
(*   SpecDedup     the filter under calls and rekeys in any order          *)
(*   SpecFirst     the first-shred set under workers holding root          *)
(*                 snapshots                                               *)
(*   SpecRekey     the load / compare-and-swap / clear protocol against a  *)
(*                 clock that advances between any two steps of a worker   *)
(*   SpecWorker    the retransmitter loops of two workers on one queue,    *)
(*                 from the receive to the publish of the max slot         *)
(*   SpecWorkerFair  SpecWorker with the workers scheduled fairly          *)
(*   SpecDispatch  the dispatch of one shred over the peer tables          *)
(*   SpecQueue     SpecWorker with the history of who received which batch *)
(*   SpecLru       SpecDedup with the history of the keys submitted        *)
(*   SpecLocks     the guards taken and dropped by two workers             *)
(*   SpecResubmit  SpecWorker with the history of the shreds dropped for   *)
(*                 an unknown leader                                       *)
(* A specification leaves the variables it does not drive at their         *)
(* initial values.                                                         *)
(***************************************************************************)
EXTENDS Integers, Sequences, FiniteSets, TLC

VARIABLES
    cache,                  \* ShredFilter: LruCache, least recently used first
    seed,                   \* PacketHasher seeds
    passed,                 \* history: per key, payloads passed since its entry was created
    probeCalls,             \* history: calls on ProbeShred (saturating)
    probeFalse,             \* history: calls on ProbeShred that returned false (saturating)
    keyFalseSinceReset,     \* history: false returns for ProbeKey since the last reset (saturating)
    first_shreds_received,  \* BTreeSet<Slot>
    bank_root,              \* bank_forks.root_bank().slot()
    root_bank,              \* per worker: slot of the root_bank snapshot it holds
    firstTrue,              \* history: times the check returned true for FirstProbeSlot (saturating)
    observed,               \* history: slots checked since bank_root took its value
    lastFirst,              \* history: the last check_if_first_shred_received call
    clock,                  \* timestamp() in ms
    hasher_reset_ts,        \* AtomicU64
    pc,                     \* per worker: position in maybe_reset_shreds_received_cache
    now,                    \* per worker: local `now`
    prev,                   \* per worker: local `prev`
    wins,                   \* history: timestamps installed by successful compare-exchanges
    clears,                 \* history: clock values at which the filter was cleared
    casLost,                \* history: some compare_exchange failed
    queue,                  \* mpsc channel of Vec<Shred>: the batches in flight
    sender_alive,           \* the Sender side of the channel has not been dropped
    batches_sent,           \* number of batches the producer has sent
    pendingAtClose,         \* history: 1 when batches were queued as the Sender was dropped
    receiver_lock,          \* holder of the shreds_receiver mutex, or "free"
    wpc,                    \* per worker: position in the retransmitter loop
    shreds,                 \* per worker: local `shreds`, the part not yet processed
    max_slot,               \* per worker: local `max_slot`
    max_slots_retransmit,   \* max_slots.retransmit (AtomicU64)
    ret,                    \* per worker: what the last retransmit call returned
    pulled,                 \* history: per worker, the receives that built its batch, kept
                            \*   until the for loop starts
    passedSlots,            \* history: per worker, slots passed by the filter in this call
    published,              \* history: slots passed by the filter in calls that have published
    unknownLeader,          \* history: per worker, the call it is in met an unknown leader
    lastDispatch,           \* history: the last pass through lines 293-328
    takenBy,                \* history: per batch, in the order sent, the workers that received it
    processedIds,           \* history: the batches whose for loop has run to its end
    touched,                \* history: the keys submitted to the filter, each once, the
                            \*   most recently submitted last
    touchedSinceClear,      \* history: the same, of the calls since the last clear
    lpc,                    \* per worker: position among the lock sites of retransmit
    held,                   \* per worker: the guards it holds
    todo,                   \* per worker: shreds of its batch still to process
    disconnected,           \* a receive has reported the channel empty and disconnected
    droppedUnknown,         \* history: the shreds dropped for an unknown leader whose pass
                            \*   through the filter is still on record
    recordKept              \* history: per worker, the shred it holds passed the filter and
                            \*   no rekey or eviction has removed the record since

dedupVars == <<cache, seed, passed, probeCalls, probeFalse, keyFalseSinceReset>>
firstVars == <<first_shreds_received, bank_root, root_bank, firstTrue, observed,
               lastFirst>>
rekeyVars == <<clock, hasher_reset_ts, pc, now, prev, wins, clears, casLost>>
workerVars == <<queue, sender_alive, batches_sent, pendingAtClose, receiver_lock, wpc, shreds, max_slot,
                max_slots_retransmit, ret, pulled, passedSlots, published,
                unknownLeader, lastDispatch>>
batchVars == <<takenBy, processedIds>>
lruVars == <<touched, touchedSinceClear>>
lockVars == <<lpc, held, todo, disconnected>>
resubmitVars == <<droppedUnknown, recordKept>>
vars == <<dedupVars, firstVars, rekeyVars, workerVars, batchVars, lruVars, lockVars, resubmitVars>>

(***************************************************************************)
(* Constants of the program and bounds of the model                        *)
(***************************************************************************)
MAX_DUPLICATE_COUNT == 2
UPDATE_INTERVAL_MS == 1000
FIRST_SHREDS_GC_LEN == 100

\* Capacity handed to LruCache::new: 10_000 in retransmitter, 100 in
\* test_already_received. should_skip_retransmit works on a cache of any capacity;
\* the model takes one smaller than the number of keys, so that keys contend for
\* the entries.
DEFAULT_LRU_SIZE == 2

\* one worker thread per retransmit socket
Workers == {"w1", "w2"}

NumPayloads == 4
HashMod == NumPayloads - 1

Min(a, b) == IF a < b THEN a ELSE b
Max(a, b) == IF a > b THEN a ELSE b

(***************************************************************************)
(* Shreds. A key is (slot, index, is_data); the keys differ from the first *)
(* one in kind, in slot and in index respectively.                         *)
(***************************************************************************)
ShredKeys == {<<1, 5, TRUE>>, <<1, 5, FALSE>>, <<2, 5, TRUE>>, <<1, 6, TRUE>>}
Payloads == 0..(NumPayloads - 1)
Shreds == [slot : {1, 2}, index : {5, 6}, is_data : BOOLEAN, payload : Payloads]
InputShreds == {s \in Shreds : <<s.slot, s.index, s.is_data>> \in ShredKeys}
Seeds == {0, 1}

KeyOf(shred) == <<shred.slot, shred.index, shred.is_data>>
MkShred(key, payload) ==
    [slot |-> key[1], index |-> key[2], is_data |-> key[3], payload |-> payload]

(***************************************************************************)
(* PacketHasher: a keyed hash of the payload into a range smaller than the *)
(* payload space, so two payloads can collide under one key; hashes taken  *)
(* under different seeds never match.                                      *)
(***************************************************************************)
hash_shred(sd, shred) == sd * HashMod + ((shred.payload + sd) % HashMod)

(***************************************************************************)
(* LruCache<(Slot, u32, bool), Vec<u64>> as a sequence of entries, least   *)
(* recently used first.                                                    *)
(***************************************************************************)
CacheKeys(c) == {c[i].key : i \in DOMAIN c}
IndexOf(c, key) == CHOOSE i \in DOMAIN c : c[i].key = key
SentOf(c, key) == c[IndexOf(c, key)].sent
Without(c, i) == [j \in 1..(Len(c) - 1) |-> IF j < i THEN c[j] ELSE c[j + 1]]

\* as LruGetMut, with a hit that leaves the order of the entries as it is
LruGetMut_NoPromote(c, key) == c

\* get_mut: a hit moves the entry to the most recently used position
LruGetMut(c, key) ==
    LET i == IndexOf(c, key) IN Append(Without(c, i), c[i])

\* put of an absent key: a full cache drops its least recently used entry
LruPut(c, key, sent) ==
    LET kept == IF Len(c) >= DEFAULT_LRU_SIZE THEN Tail(c) ELSE c
    IN  Append(kept, [key |-> key, sent |-> sent])

Contains(sent, hash) == \E i \in DOMAIN sent : sent[i] = hash

(***************************************************************************)
(* should_skip_retransmit, the whole body under the filter's mutex.        *)
(* The result is the cache after the call and the value returned.          *)
(***************************************************************************)
\* as should_skip_retransmit, with the cap tested by > instead of >=
should_skip_retransmit_LooseCap(c, sd, shred) ==
    LET key == KeyOf(shred)
    IN  IF key \in CacheKeys(c)
        THEN LET c1 == LruGetMut(c, key)
                 sent == c1[Len(c1)].sent
                 hash == hash_shred(sd, shred)
             IN  IF Len(sent) > MAX_DUPLICATE_COUNT
                 THEN [cache |-> c1, ret |-> TRUE]
                 ELSE IF Contains(sent, hash)
                      THEN [cache |-> c1, ret |-> TRUE]
                      ELSE [cache |-> [c1 EXCEPT ![Len(c1)].sent = Append(sent, hash)],
                            ret |-> FALSE]
        ELSE [cache |-> LruPut(c, key, <<hash_shred(sd, shred)>>), ret |-> FALSE]

\* as should_skip_retransmit, without the sent.contains(&hash) test
should_skip_retransmit_NoContains(c, sd, shred) ==
    LET key == KeyOf(shred)
    IN  IF key \in CacheKeys(c)
        THEN LET c1 == LruGetMut(c, key)
                 sent == c1[Len(c1)].sent
                 hash == hash_shred(sd, shred)
             IN  IF Len(sent) >= MAX_DUPLICATE_COUNT
                 THEN [cache |-> c1, ret |-> TRUE]
                 ELSE [cache |-> [c1 EXCEPT ![Len(c1)].sent = Append(sent, hash)],
                       ret |-> FALSE]
        ELSE [cache |-> LruPut(c, key, <<hash_shred(sd, shred)>>), ret |-> FALSE]

\* as should_skip_retransmit, with the first hash of a key not stored
should_skip_retransmit_NoStore(c, sd, shred) ==
    LET key == KeyOf(shred)
    IN  IF key \in CacheKeys(c)
        THEN LET c1 == LruGetMut(c, key)
                 sent == c1[Len(c1)].sent
                 hash == hash_shred(sd, shred)
             IN  IF Len(sent) >= MAX_DUPLICATE_COUNT
                 THEN [cache |-> c1, ret |-> TRUE]
                 ELSE IF Contains(sent, hash)
                      THEN [cache |-> c1, ret |-> TRUE]
                      ELSE [cache |-> [c1 EXCEPT ![Len(c1)].sent = Append(sent, hash)],
                            ret |-> FALSE]
        ELSE [cache |-> LruPut(c, key, <<>>), ret |-> FALSE]

\* as should_skip_retransmit, keyed by (slot, index) alone: is_data left out of the key
should_skip_retransmit_NoKind(c, sd, shred) ==
    LET key == <<shred.slot, shred.index, TRUE>>
    IN  IF key \in CacheKeys(c)
        THEN LET c1 == LruGetMut(c, key)
                 sent == c1[Len(c1)].sent
                 hash == hash_shred(sd, shred)
             IN  IF Len(sent) >= MAX_DUPLICATE_COUNT
                 THEN [cache |-> c1, ret |-> TRUE]
                 ELSE IF Contains(sent, hash)
                      THEN [cache |-> c1, ret |-> TRUE]
                      ELSE [cache |-> [c1 EXCEPT ![Len(c1)].sent = Append(sent, hash)],
                            ret |-> FALSE]
        ELSE [cache |-> LruPut(c, key, <<hash_shred(sd, shred)>>), ret |-> FALSE]

should_skip_retransmit(c, sd, shred) ==
    LET key == KeyOf(shred)
    IN  IF key \in CacheKeys(c)
        THEN LET c1 == LruGetMut(c, key)            \* cache.get_mut(&key)
                 sent == c1[Len(c1)].sent
                 hash == hash_shred(sd, shred)
             IN  IF Len(sent) >= MAX_DUPLICATE_COUNT
                 THEN [cache |-> c1, ret |-> TRUE]
                 ELSE IF Contains(sent, hash)
                      THEN [cache |-> c1, ret |-> TRUE]
                      ELSE [cache |-> [c1 EXCEPT ![Len(c1)].sent = Append(sent, hash)],
                            ret |-> FALSE]
        ELSE [cache |-> LruPut(c, key, <<hash_shred(sd, shred)>>), ret |-> FALSE]

(***************************************************************************)
(* SpecDedup: workers submit shreds to the filter and the winner of a      *)
(* rekey clears it, in any order. Each step is one critical section of the *)
(* filter's mutex, so an interleaving of the workers is an order of the    *)
(* critical sections; which worker runs one does not enter the state.      *)
(***************************************************************************)
ProbeKey == <<1, 5, TRUE>>
ProbeShred == MkShred(ProbeKey, 2)

NoPassed == [k \in ShredKeys |-> <<>>]

InitDedupVars ==
    /\ cache = <<>>
    /\ seed = 0
    /\ passed = NoPassed
    /\ probeCalls = 0
    /\ probeFalse = 0
    /\ keyFalseSinceReset = 0
    /\ touched = <<>>
    /\ touchedSinceClear = <<>>

\* retransmit, lines 271-275: one shred of a worker's batch goes through the filter
FilterShred(shred) ==
    LET r == should_skip_retransmit(cache, seed, shred)
        key == KeyOf(shred)
        fresh == key \notin CacheKeys(cache)
    IN  /\ cache' = r.cache
        /\ seed' = seed
        /\ passed' = [k \in ShredKeys |->
                        IF k \notin CacheKeys(r.cache) THEN <<>>
                        ELSE IF k # key \/ r.ret THEN passed[k]
                        ELSE IF fresh THEN <<shred.payload>>
                        ELSE Append(passed[k], shred.payload)]
        /\ probeCalls' = IF shred = ProbeShred THEN Min(probeCalls + 1, 2) ELSE probeCalls
        /\ probeFalse' = IF shred = ProbeShred /\ ~r.ret
                         THEN Min(probeFalse + 1, 2) ELSE probeFalse
        /\ keyFalseSinceReset' = IF key = ProbeKey /\ ~r.ret
                                 THEN Min(keyFalseSinceReset + 1, MAX_DUPLICATE_COUNT + 1)
                                 ELSE keyFalseSinceReset

\* as ClearAndReset, with the hasher reset and the cache left as it is
ClearAndReset_KeepCache(sd) ==
    /\ cache' = cache
    /\ seed' = sd
    /\ passed' = NoPassed
    /\ keyFalseSinceReset' = 0
    /\ UNCHANGED <<probeCalls, probeFalse>>

\* maybe_reset_shreds_received_cache, lines 218-221: cache.clear(); hasher.reset()
ClearAndReset(sd) ==
    /\ cache' = <<>>
    /\ seed' = sd
    /\ passed' = NoPassed
    /\ keyFalseSinceReset' = 0
    /\ UNCHANGED <<probeCalls, probeFalse>>

(***************************************************************************)
(* check_if_first_shred_received. The test against the root reads only the *)
(* caller's snapshot; the rest runs under the set's mutex. The result is   *)
(* the set after the call, the value returned and whether the call         *)
(* garbage-collected the set.                                              *)
(***************************************************************************)
\* BTreeSet::split_off(&at) returns the elements >= at; the swap keeps them
SplitOffKept(set, at) == {s \in set : s >= at}

\* as check_if_first_shred_received, with the stale test shred_slot < root
check_if_first_shred_received_RootIsNew(shred_slot, set, root) ==
    IF shred_slot < root
    THEN [set |-> set, ret |-> FALSE, gc |-> FALSE]
    ELSE IF shred_slot \notin set
         THEN LET inserted == set \cup {shred_slot}
              IN  IF Cardinality(inserted) > FIRST_SHREDS_GC_LEN
                  THEN [set |-> SplitOffKept(inserted, root + 1), ret |-> TRUE, gc |-> TRUE]
                  ELSE [set |-> inserted, ret |-> TRUE, gc |-> FALSE]
         ELSE [set |-> set, ret |-> FALSE, gc |-> FALSE]

\* as check_if_first_shred_received, splitting at root instead of root + 1
check_if_first_shred_received_SplitAtRoot(shred_slot, set, root) ==
    IF shred_slot <= root
    THEN [set |-> set, ret |-> FALSE, gc |-> FALSE]
    ELSE IF shred_slot \notin set
         THEN LET inserted == set \cup {shred_slot}
              IN  IF Cardinality(inserted) > FIRST_SHREDS_GC_LEN
                  THEN [set |-> SplitOffKept(inserted, root), ret |-> TRUE, gc |-> TRUE]
                  ELSE [set |-> inserted, ret |-> TRUE, gc |-> FALSE]
         ELSE [set |-> set, ret |-> FALSE, gc |-> FALSE]

\* as check_if_first_shred_received, collecting only above one more entry
check_if_first_shred_received_LateGc(shred_slot, set, root) ==
    IF shred_slot <= root
    THEN [set |-> set, ret |-> FALSE, gc |-> FALSE]
    ELSE IF shred_slot \notin set
         THEN LET inserted == set \cup {shred_slot}
              IN  IF Cardinality(inserted) > FIRST_SHREDS_GC_LEN + 1
                  THEN [set |-> SplitOffKept(inserted, root + 1), ret |-> TRUE, gc |-> TRUE]
                  ELSE [set |-> inserted, ret |-> TRUE, gc |-> FALSE]
         ELSE [set |-> set, ret |-> FALSE, gc |-> FALSE]

check_if_first_shred_received(shred_slot, set, root) ==
    IF shred_slot <= root
    THEN [set |-> set, ret |-> FALSE, gc |-> FALSE]
    ELSE IF shred_slot \notin set
         THEN LET inserted == set \cup {shred_slot}
              IN  IF Cardinality(inserted) > FIRST_SHREDS_GC_LEN
                  THEN [set |-> SplitOffKept(inserted, root + 1), ret |-> TRUE, gc |-> TRUE]
                  ELSE [set |-> inserted, ret |-> TRUE, gc |-> FALSE]
         ELSE [set |-> set, ret |-> FALSE, gc |-> FALSE]

(***************************************************************************)
(* SpecFirst: workers take root snapshots, the root advances, and workers  *)
(* report the slots of the shreds that passed the filter. The set starts   *)
(* empty, or holding the first shreds of PrefillLen slots received while   *)
(* the root was 0.                                                         *)
(***************************************************************************)
PrefillLen == 99
FreshSlots == 2
Prefill == 1..PrefillLen
SlotInputs == {1, PrefillLen} \cup ((PrefillLen + 1)..(PrefillLen + FreshSlots))
RootInputs == {1, PrefillLen} \cup ((PrefillLen + 1)..(PrefillLen + FreshSlots - 1))
FirstProbeSlot == PrefillLen + 1
NoCall == [op |-> "none"]

InitFirstVars ==
    /\ first_shreds_received \in {{}, Prefill}
    /\ bank_root = 0
    /\ root_bank = [w \in Workers |-> 0]
    /\ firstTrue = 0
    /\ observed = first_shreds_received
    /\ lastFirst = NoCall

\* retransmit, lines 254-257: the worker's root_bank for the batch
SnapshotBanks(w) ==
    /\ root_bank[w] # bank_root
    /\ root_bank' = [root_bank EXCEPT ![w] = bank_root]
    /\ lastFirst' = NoCall
    /\ UNCHANGED <<first_shreds_received, bank_root, firstTrue, observed>>

\* bank_forks sets a new root (replay stage)
AdvanceRoot(r) ==
    /\ r > bank_root
    /\ bank_root' = r
    /\ observed' = {}
    /\ lastFirst' = NoCall
    /\ UNCHANGED <<first_shreds_received, root_bank, firstTrue>>

\* retransmit, lines 279-286, with a notifier wired
FirstShred(w, shred_slot) ==
    LET r == check_if_first_shred_received(shred_slot, first_shreds_received, root_bank[w])
    IN  /\ first_shreds_received' = r.set
        /\ firstTrue' = IF shred_slot = FirstProbeSlot /\ r.ret
                        THEN Min(firstTrue + 1, 2) ELSE firstTrue
        /\ observed' = observed \cup {shred_slot}
        /\ lastFirst' = [op |-> "check", slot |-> shred_slot, root |-> root_bank[w],
                         ret |-> r.ret, gc |-> r.gc]
        /\ UNCHANGED <<bank_root, root_bank>>

(***************************************************************************)
(* maybe_reset_shreds_received_cache, one step per shared access:          *)
(*   "idle"  now = timestamp()                                  line 211   *)
(*   "load"  prev = hasher_reset_ts.load()                      line 212   *)
(*   "cas"   the interval test and the compare_exchange         213-216    *)
(*   "clear" lock; cache.clear(); hasher.reset()                218-221    *)
(*   "loop"  the shreds of the batch go through the filter      271-275    *)
(* The clock advances between any two steps.                               *)
(***************************************************************************)
ClockStart == 2000
TickMs == 500
MaxTicks == 4
MaxClock == ClockStart + MaxTicks * TickMs

saturating_sub(a, b) == IF a >= b THEN a - b ELSE 0

\* line 213
ResetDue(nw, pv) == saturating_sub(nw, pv) > UPDATE_INTERVAL_MS

\* as CompareExchangeOk, for a plain store of `now` in place of the compare_exchange
CompareExchangeOk_PlainStore(current, expected) == TRUE

\* lines 214-216: compare_exchange(prev, now) succeeds iff the value is still prev
CompareExchangeOk(current, expected) == current = expected

\* the shreds of the batches: one shred, submitted any number of times
RekeyShreds == {MkShred(<<2, 5, TRUE>>, 0)}

InitRekeyVars ==
    /\ clock = ClockStart
    /\ hasher_reset_ts = 0
    /\ pc = [w \in Workers |-> "idle"]
    /\ now = [w \in Workers |-> 0]
    /\ prev = [w \in Workers |-> 0]
    /\ wins = <<>>
    /\ clears = <<>>
    /\ casLost = FALSE

Tick ==
    /\ clock + TickMs <= MaxClock
    /\ clock' = clock + TickMs
    /\ UNCHANGED <<hasher_reset_ts, pc, now, prev, wins, clears, casLost>>
    /\ UNCHANGED dedupVars

ReadNow(w) ==
    /\ pc[w] = "idle"
    /\ now' = [now EXCEPT ![w] = clock]
    /\ pc' = [pc EXCEPT ![w] = "load"]
    /\ UNCHANGED <<clock, hasher_reset_ts, prev, wins, clears, casLost>>
    /\ UNCHANGED dedupVars

LoadPrev(w) ==
    /\ pc[w] = "load"
    /\ prev' = [prev EXCEPT ![w] = hasher_reset_ts]
    /\ pc' = [pc EXCEPT ![w] = "cas"]
    /\ UNCHANGED <<clock, hasher_reset_ts, now, wins, clears, casLost>>
    /\ UNCHANGED dedupVars

\* the interval has not passed: no compare_exchange is made
SkipReset(w) ==
    /\ pc[w] = "cas"
    /\ ~ResetDue(now[w], prev[w])
    /\ pc' = [pc EXCEPT ![w] = "loop"]
    /\ UNCHANGED <<clock, hasher_reset_ts, now, prev, wins, clears, casLost>>
    /\ UNCHANGED dedupVars

CompareExchangeWin(w) ==
    /\ pc[w] = "cas"
    /\ ResetDue(now[w], prev[w])
    /\ CompareExchangeOk(hasher_reset_ts, prev[w])
    /\ hasher_reset_ts' = now[w]
    /\ wins' = Append(wins, [ts |-> now[w], prev |-> prev[w], by |-> w])
    /\ pc' = [pc EXCEPT ![w] = "clear"]
    /\ UNCHANGED <<clock, now, prev, clears, casLost>>
    /\ UNCHANGED dedupVars

CompareExchangeLose(w) ==
    /\ pc[w] = "cas"
    /\ ResetDue(now[w], prev[w])
    /\ ~CompareExchangeOk(hasher_reset_ts, prev[w])
    /\ casLost' = TRUE
    /\ pc' = [pc EXCEPT ![w] = "loop"]
    /\ UNCHANGED <<clock, hasher_reset_ts, now, prev, wins, clears>>
    /\ UNCHANGED dedupVars

ClearFilter(w) ==
    /\ pc[w] = "clear"
    /\ \E sd \in Seeds : ClearAndReset(sd)
    /\ clears' = Append(clears, [at |-> clock, by |-> w])
    /\ pc' = [pc EXCEPT ![w] = "loop"]
    /\ UNCHANGED <<clock, hasher_reset_ts, now, prev, wins, casLost>>

LoopFilter(w) ==
    /\ pc[w] = "loop"
    /\ \E shred \in RekeyShreds : FilterShred(shred)
    /\ UNCHANGED rekeyVars

\* retransmit returns; the worker's loop calls it again (lines 405-406)
EndIteration(w) ==
    /\ pc[w] = "loop"
    /\ pc' = [pc EXCEPT ![w] = "idle"]
    /\ now' = [now EXCEPT ![w] = 0]
    /\ prev' = [prev EXCEPT ![w] = 0]
    /\ UNCHANGED <<clock, hasher_reset_ts, wins, clears, casLost>>
    /\ UNCHANGED dedupVars

(***************************************************************************)
(* Peer selection and dispatch, lines 293-328. ClusterNodes and            *)
(* ClusterInfo::retransmit_to live outside this file; they follow the      *)
(* PeerSelector and RetransmitWorker sections of the specification.        *)
(* A node is its id; a datagram is addressed to a node's tvu or            *)
(* tvu_forwards socket.                                                    *)
(***************************************************************************)
\* cluster_info.id(), line 265
my_id == 1
NumNodes == 8
Nodes == 1..NumNodes
\* line 302; the fanout of the model is the smallest with a neighbor besides the anchor
DATA_PLANE_FANOUT == 2

\* The peer tables: the other nodes in id order, with or without the local node at
\* any place among them. The leader is any node, so removing it leaves any gap, and
\* the shuffle moves any node to the front.
OtherNodes(m) == [j \in 1..m |-> j + 1]
InsertAt(list, pos, x) ==
    [j \in 1..(Len(list) + 1) |->
        IF j < pos THEN list[j] ELSE IF j = pos THEN x ELSE list[j - 1]]
PeerTables ==
    {OtherNodes(m) : m \in 0..(NumNodes - 1)} \cup
    UNION {{InsertAt(OtherNodes(m), pos, my_id) : pos \in 1..(m + 1)} :
              m \in 0..(NumNodes - 1)}
ShredSeeds == 0..(NumNodes - 1)
NoLeader == 0

Range(list) == {list[j] : j \in DOMAIN list}
PositionOf(list, x) == CHOOSE j \in DOMAIN list : list[j] = x
\* the block of `size` entries from the 0-based index `start`, clipped to the list
Block(list, start, size) == SubSeq(list, start + 1, Min(start + size, Len(list)))

\* the seeded shuffle, as a rotation of the table by the seed
weighted_shuffle(list, shred_seed) ==
    [j \in 1..Len(list) |-> list[((j - 1 + shred_seed) % Len(list)) + 1]]

\* PeerSelector: the leader removed, the rest shuffled, the local node's neighborhood
\* and the block of its children; both empty when the local node is not in the list
get_retransmit_peers(nodes, shred_seed, fanout, slot_leader) ==
    LET shuffled == weighted_shuffle(SelectSeq(nodes, LAMBDA x : x # slot_leader),
                                     shred_seed)
    IN  IF my_id \notin Range(shuffled)
        THEN [neighbors |-> <<>>, children |-> <<>>]
        ELSE LET p == PositionOf(shuffled, my_id) - 1
                 n == p \div fanout
                 i == p % fanout
             IN  [neighbors |-> Block(shuffled, n * fanout, fanout),
                  children |-> Block(shuffled, (n + 1) * fanout * fanout + i * fanout,
                                     fanout)]

\* ClusterInfo::retransmit_to: one datagram per peer, to its tvu_forwards socket when
\* `forwarded`, else to its tvu socket
retransmit_to(peers, payload, forwarded) ==
    [j \in 1..Len(peers) |->
        [to |-> peers[j], port |-> IF forwarded THEN "tvu_forwards" ELSE "tvu",
         payload |-> payload]]

\* as SendShred, with the whole neighbors slice in place of &neighbors[1..]
SendShred_AllNeighbors(neighbors, children, payload) ==
    IF neighbors = <<>>
    THEN [panic |-> TRUE, datagrams |-> <<>>]
    ELSE LET anchor_node == neighbors[1] = my_id
         IN  [panic |-> FALSE,
              datagrams |->
                 (IF anchor_node THEN retransmit_to(neighbors, payload, TRUE)
                  ELSE <<>>)
                 \o retransmit_to(children, payload, ~anchor_node)]

\* as SendShred, with the children addressed like the neighbors whoever the anchor is
SendShred_ChildrenForwarded(neighbors, children, payload) ==
    IF neighbors = <<>>
    THEN [panic |-> TRUE, datagrams |-> <<>>]
    ELSE LET anchor_node == neighbors[1] = my_id
         IN  [panic |-> FALSE,
              datagrams |->
                 (IF anchor_node THEN retransmit_to(Tail(neighbors), payload, TRUE)
                  ELSE <<>>)
                 \o retransmit_to(children, payload, TRUE)]

\* lines 303-328. neighbors[0] on an empty Vec is an index out of bounds: the thread
\* panics before anything is sent.
SendShred(neighbors, children, payload) ==
    IF neighbors = <<>>
    THEN [panic |-> TRUE, datagrams |-> <<>>]
    ELSE LET anchor_node == neighbors[1] = my_id
         IN  [panic |-> FALSE,
              datagrams |->
                 (IF anchor_node THEN retransmit_to(Tail(neighbors), payload, TRUE)
                  ELSE <<>>)
                 \o retransmit_to(children, payload, ~anchor_node)]

NoDispatch == [op |-> "none"]

\* lines 293-328 for the head of `batch`, a shred that passed the filter: the leader
\* lookup, the peers and the sends, under a leader schedule, a peer table and a shred
\* seed; `rest` is what the for loop still holds
Dispatch(w, batch, nodes, shred_seed, slot_leader) ==
    IF slot_leader = NoLeader
    THEN [op |-> "leader_unknown", by |-> w, shred |-> Head(batch), rest |-> Tail(batch),
          panic |-> FALSE, datagrams |-> <<>>]
    ELSE LET peers == get_retransmit_peers(nodes, shred_seed, DATA_PLANE_FANOUT,
                                           slot_leader)
             sent == SendShred(peers.neighbors, peers.children, Head(batch).payload)
         IN  [op |-> "send", by |-> w, shred |-> Head(batch), rest |-> Tail(batch),
              nodes |-> nodes, shred_seed |-> shred_seed, slot_leader |-> slot_leader,
              neighbors |-> peers.neighbors, children |-> peers.children,
              panic |-> sent.panic, datagrams |-> sent.datagrams]

(***************************************************************************)
(* The retransmitter workers: the loop of lines 405-429 around retransmit, *)
(* one step per access to shared state.                                    *)
(*   "lock"     shreds_receiver.lock()                          line 242   *)
(*   "recv"     recv_timeout, holding the lock                  line 243   *)
(*   "drain"    try_recv until empty or the batch is full       245-251    *)
(*   "rekey"    the banks are read (254-257);                              *)
(*              maybe_reset_shreds_received_cache               line 261   *)
(*   "filter"   the head of `shreds` goes through the filter    271-277    *)
(*   "send"     first-shred check, leader, peers, sends         279-328    *)
(*   "publish"  max_slots.retransmit.fetch_max (332); the stats; Ok(())     *)
(* A position is left by the step that makes its access. The banks do not  *)
(* change while the workers run here and the stats counters are not        *)
(* modelled, so reading the banks closes the step that drops the queue     *)
(* lock and the stats close the step that publishes.                       *)
(*   "exited"   the loop was left by break                      line 422   *)
(*   "panicked" the thread unwound                                         *)
(***************************************************************************)
\* line 55. The drain loop works the same for any limit; the model takes one that
\* the batches below reach, exceed and stay under.
MAX_SHREDS_BATCH_SIZE == 3
MaxBatchesSent == 2

WorkerShredA == MkShred(<<1, 5, FALSE>>, 0)
WorkerShredB == MkShred(<<2, 5, TRUE>>, 0)
\* the batches the producer sends
BatchInputs == {<<WorkerShredA>>, <<WorkerShredB, WorkerShredA>>}

\* what the collaborators answer for a shred: no leader; the local node anchor of a
\* neighborhood with children; the local node missing from the table. SpecDispatch
\* takes every table.
ViewInputs ==
    { [nodes |-> <<1, 2, 3, 4, 5, 6, 7>>, shred_seed |-> 0, slot_leader |-> NoLeader],
      [nodes |-> <<1, 2, 3, 4, 5, 6, 7>>, shred_seed |-> 0, slot_leader |-> 8],
      [nodes |-> <<2, 3>>, shred_seed |-> 0, slot_leader |-> 8] }

Running == {"lock", "recv", "drain", "rekey", "filter", "send", "publish"}
Stopped == {"exited", "panicked"}
NoPull == [n |-> 0, before |-> 0, polls |-> 0]

InitWorkerVars ==
    /\ queue = <<>>
    /\ sender_alive = TRUE
    /\ batches_sent = 0
    /\ pendingAtClose = 0
    /\ receiver_lock = "free"
    /\ wpc = [w \in Workers |-> "lock"]
    /\ shreds = [w \in Workers |-> <<>>]
    /\ max_slot = [w \in Workers |-> 0]
    /\ max_slots_retransmit = 0
    /\ ret = [w \in Workers |-> "none"]
    /\ pulled = [w \in Workers |-> NoPull]
    /\ passedSlots = [w \in Workers |-> {}]
    /\ published = {}
    /\ unknownLeader = [w \in Workers |-> FALSE]
    /\ lastDispatch = NoDispatch
    /\ takenBy = [id \in 1..MaxBatchesSent |-> {}]
    /\ processedIds = {}
    /\ lpc = [w \in Workers |-> "lock_receiver"]
    /\ held = [w \in Workers |-> {}]
    /\ todo = [w \in Workers |-> 0]
    /\ disconnected = FALSE
    /\ droppedUnknown = {}
    /\ recordKept = [w \in Workers |-> FALSE]

\* mpsc::Receiver::recv_timeout: a queued batch first; with none queued, Disconnected
\* once the sender is gone and Timeout otherwise
recv_timeout(q, alive) ==
    IF q # <<>> THEN "Ok" ELSE IF alive THEN "Timeout" ELSE "Disconnected"

\* as LoopAfter, with no arm that breaks
LoopAfter_NeverBreak(e) == "lock"

\* lines 406-428: where the loop goes with what retransmit returned
LoopAfter(e) == IF e = "Disconnected" THEN "exited" ELSE "lock"

\* the for loop of line 271: its next position with `rest` still to process
LoopPc(rest) == IF rest = <<>> THEN "publish" ELSE "filter"

\* as max_slot_after, taking the slot before the filter is asked
max_slot_after_Unfiltered(ms, shred, skip) == Max(ms, shred.slot)

\* lines 272-277: `continue` on a skipped shred comes before max_slot is raised
max_slot_after(ms, shred, skip) == IF skip THEN ms ELSE Max(ms, shred.slot)

\* as draining_done, testing the length before the batch is added
draining_done_TestFirst(before, after) == before >= MAX_SHREDS_BATCH_SIZE

\* lines 246-249: the loop breaks on the length after the extend
draining_done(before, after) == after >= MAX_SHREDS_BATCH_SIZE

\* as AfterDispatch, with an unknown leader ending the for loop
AfterDispatch_UnknownBreaks(d, rest) ==
    IF d.panic THEN "panicked"
    ELSE IF d.op = "leader_unknown" THEN "publish" ELSE LoopPc(rest)

\* lines 296 and 331: `continue` and the end of the body both go to the next shred;
\* a panic ends the thread
AfterDispatch(d, rest) == IF d.panic THEN "panicked" ELSE LoopPc(rest)

\* the producer (window service) sends a batch
SendBatch(b) ==
    /\ sender_alive
    /\ batches_sent < MaxBatchesSent
    /\ queue' = Append(queue, b)
    /\ batches_sent' = batches_sent + 1
    /\ lastDispatch' = NoDispatch
    /\ UNCHANGED <<sender_alive, pendingAtClose, receiver_lock, wpc, shreds, max_slot,
                   max_slots_retransmit, ret, pulled, passedSlots, published,
                   unknownLeader>>
    /\ UNCHANGED <<dedupVars, firstVars>>

\* the Sender is dropped
DropSender ==
    /\ sender_alive
    /\ sender_alive' = FALSE
    /\ pendingAtClose' = Min(Len(queue), 1)
    /\ lastDispatch' = NoDispatch
    /\ UNCHANGED <<queue, batches_sent, receiver_lock, wpc, shreds, max_slot,
                   max_slots_retransmit, ret, pulled, passedSlots, published,
                   unknownLeader>>
    /\ UNCHANGED <<dedupVars, firstVars>>

queueVars == <<queue, sender_alive, batches_sent, pendingAtClose>>

LockReceiver(w) ==
    /\ wpc[w] = "lock"
    /\ receiver_lock = "free"
    /\ receiver_lock' = w
    /\ wpc' = [wpc EXCEPT ![w] = "recv"]
    /\ lastDispatch' = NoDispatch
    /\ UNCHANGED <<queueVars, shreds, max_slot, max_slots_retransmit, ret, pulled,
                   passedSlots, published, unknownLeader>>
    /\ UNCHANGED <<dedupVars, firstVars>>

\* line 243, Ok: the first batch of the call
RecvOk(w) ==
    /\ wpc[w] = "recv"
    /\ recv_timeout(queue, sender_alive) = "Ok"
    /\ shreds' = [shreds EXCEPT ![w] = Head(queue)]
    /\ queue' = Tail(queue)
    /\ pulled' = [pulled EXCEPT ![w] = [n |-> Len(Head(queue)), before |-> 0, polls |-> 1]]
    /\ passedSlots' = [passedSlots EXCEPT ![w] = {}]
    /\ unknownLeader' = [unknownLeader EXCEPT ![w] = FALSE]
    /\ ret' = [ret EXCEPT ![w] = "none"]
    /\ wpc' = [wpc EXCEPT ![w] = "drain"]
    /\ lastDispatch' = NoDispatch
    /\ UNCHANGED <<sender_alive, batches_sent, pendingAtClose, receiver_lock, max_slot,
                   max_slots_retransmit, published>>
    /\ UNCHANGED <<dedupVars, firstVars>>

\* line 243, Err: `?` returns the error, the guard of line 242 is dropped on the way
\* out and the loop matches on the error
ReturnErr(w, e, lock_after) ==
    /\ wpc[w] = "recv"
    /\ recv_timeout(queue, sender_alive) = e
    /\ ret' = [ret EXCEPT ![w] = e]
    /\ receiver_lock' = lock_after
    /\ wpc' = [wpc EXCEPT ![w] = LoopAfter(e)]
    /\ unknownLeader' = [unknownLeader EXCEPT ![w] = FALSE]
    /\ lastDispatch' = NoDispatch
    /\ UNCHANGED <<queueVars, shreds, max_slot, max_slots_retransmit, pulled,
                   passedSlots, published>>
    /\ UNCHANGED <<dedupVars, firstVars>>

\* as RecvTimeout, with the guard kept across the return
RecvTimeout_KeepLock(w) == ReturnErr(w, "Timeout", w)

RecvTimeout(w) == ReturnErr(w, "Timeout", "free")

RecvDisconnected(w) == ReturnErr(w, "Disconnected", "free")

\* lines 245-257, try_recv gave a batch: extend, and break when the batch is full;
\* the break falls into drop(shreds_receiver) and the read of the banks
TryRecvOk(w) ==
    /\ wpc[w] = "drain"
    /\ queue # <<>>
    /\ LET after == shreds[w] \o Head(queue)
           done == draining_done(Len(shreds[w]), Len(after))
       IN  /\ shreds' = [shreds EXCEPT ![w] = after]
           /\ pulled' = [pulled EXCEPT ![w] = [n |-> Len(after), before |-> Len(shreds[w]),
                                               polls |-> pulled[w].polls + 1]]
           /\ wpc' = [wpc EXCEPT ![w] = IF done THEN "rekey" ELSE "drain"]
           /\ receiver_lock' = IF done THEN "free" ELSE receiver_lock
           /\ root_bank' = IF done THEN [root_bank EXCEPT ![w] = bank_root] ELSE root_bank
    /\ queue' = Tail(queue)
    /\ lastDispatch' = NoDispatch
    /\ UNCHANGED <<sender_alive, batches_sent, pendingAtClose, max_slot,
                   max_slots_retransmit, ret, passedSlots, published, unknownLeader>>
    /\ UNCHANGED <<first_shreds_received, bank_root, firstTrue, observed, lastFirst>>
    /\ UNCHANGED dedupVars

\* lines 245 and 251-257, try_recv gave Err (empty or disconnected): the loop ends,
\* the guard is dropped and the banks are read
TryRecvErr(w) ==
    /\ wpc[w] = "drain"
    /\ queue = <<>>
    /\ wpc' = [wpc EXCEPT ![w] = "rekey"]
    /\ receiver_lock' = "free"
    /\ root_bank' = [root_bank EXCEPT ![w] = bank_root]
    /\ lastDispatch' = NoDispatch
    /\ UNCHANGED <<queueVars, shreds, max_slot, max_slots_retransmit, ret, pulled,
                   passedSlots, published, unknownLeader>>
    /\ UNCHANGED <<first_shreds_received, bank_root, firstTrue, observed, lastFirst>>
    /\ UNCHANGED dedupVars

\* lines 261-270 around the rekey
EnterLoop(w) ==
    /\ wpc[w] = "rekey"
    /\ max_slot' = [max_slot EXCEPT ![w] = 0]
    /\ wpc' = [wpc EXCEPT ![w] = LoopPc(shreds[w])]
    /\ pulled' = [pulled EXCEPT ![w] = NoPull]
    /\ lastDispatch' = NoDispatch
    /\ UNCHANGED <<queueVars, receiver_lock, shreds, max_slots_retransmit, ret,
                   passedSlots, published, unknownLeader>>
    /\ UNCHANGED firstVars

\* line 261: the interval has not passed, or another worker won the compare_exchange
SkipRekey(w) == EnterLoop(w) /\ UNCHANGED dedupVars

\* line 261: this worker won the compare_exchange (SpecRekey) and clears the filter
WinRekey(w) == EnterLoop(w) /\ \E sd \in Seeds : ClearAndReset(sd)

\* lines 271-277 for the head of the batch
FilterStep(w) ==
    /\ wpc[w] = "filter"
    /\ LET shred == Head(shreds[w])
           skip == should_skip_retransmit(cache, seed, shred).ret
       IN  /\ FilterShred(shred)
           /\ max_slot' = [max_slot EXCEPT ![w] = max_slot_after(@, shred, skip)]
           /\ shreds' = [shreds EXCEPT ![w] = IF skip THEN Tail(@) ELSE @]
           /\ wpc' = [wpc EXCEPT ![w] = IF skip THEN LoopPc(Tail(shreds[w])) ELSE "send"]
           /\ passedSlots' = [passedSlots EXCEPT
                                 ![w] = IF skip THEN @ ELSE @ \cup {shred.slot}]
    /\ lastDispatch' = NoDispatch
    /\ UNCHANGED <<queueVars, receiver_lock, max_slots_retransmit, ret, pulled, published,
                   unknownLeader>>
    /\ UNCHANGED firstVars

\* lines 279-331 for a shred that passed the filter, with a notifier wired
SendStep(w, view) ==
    /\ wpc[w] = "send"
    /\ LET shred == Head(shreds[w])
           first == check_if_first_shred_received(shred.slot, first_shreds_received,
                                                  root_bank[w])
           d == Dispatch(w, shreds[w], view.nodes, view.shred_seed, view.slot_leader)
       IN  /\ first_shreds_received' = first.set
           /\ lastDispatch' = d
           /\ shreds' = [shreds EXCEPT ![w] = IF d.panic THEN <<>> ELSE d.rest]
           /\ wpc' = [wpc EXCEPT ![w] = AfterDispatch(d, d.rest)]
           /\ unknownLeader' = [unknownLeader EXCEPT
                                   ![w] = @ \/ d.op = "leader_unknown"]
    /\ UNCHANGED <<queueVars, receiver_lock, max_slot, max_slots_retransmit, ret, pulled,
                   passedSlots, published>>
    /\ UNCHANGED <<bank_root, root_bank, firstTrue, observed, lastFirst>>
    /\ UNCHANGED dedupVars

\* lines 332-355: fetch_max, the stats, then Ok(()) and the loop calls retransmit
\* again
Publish(w) ==
    /\ wpc[w] = "publish"
    /\ max_slots_retransmit' = Max(max_slots_retransmit, max_slot[w])
    /\ published' = published \cup passedSlots[w]
    /\ ret' = [ret EXCEPT ![w] = "Ok"]
    /\ wpc' = [wpc EXCEPT ![w] = LoopAfter("Ok")]
    /\ max_slot' = [max_slot EXCEPT ![w] = 0]
    /\ passedSlots' = [passedSlots EXCEPT ![w] = {}]
    /\ lastDispatch' = NoDispatch
    /\ unknownLeader' = [unknownLeader EXCEPT ![w] = FALSE]
    /\ UNCHANGED <<queueVars, receiver_lock, shreds, pulled>>
    /\ UNCHANGED <<dedupVars, firstVars>>

\* the steps of one worker
WorkerStep(w) ==
    \/ LockReceiver(w) \/ RecvOk(w) \/ RecvTimeout(w) \/ RecvDisconnected(w)
    \/ TryRecvOk(w) \/ TryRecvErr(w) \/ SkipRekey(w) \/ WinRekey(w)
    \/ FilterStep(w) \/ (\E view \in ViewInputs : SendStep(w, view))
    \/ Publish(w)

(***************************************************************************)
(* SpecDispatch: lines 293-328 applied once to a shred, under any peer     *)
(* table, shred seed and leader.                                           *)
(***************************************************************************)
DispatchShred(nodes, shred_seed, slot_leader, shred) ==
    /\ lastDispatch = NoDispatch
    /\ lastDispatch' = Dispatch("w1", <<shred>>, nodes, shred_seed, slot_leader)
    /\ UNCHANGED <<queueVars, receiver_lock, wpc, shreds, max_slot, max_slots_retransmit,
                   ret, pulled, passedSlots, published, unknownLeader>>
    /\ UNCHANGED <<dedupVars, firstVars, rekeyVars, batchVars, lruVars, lockVars, resubmitVars>>

(***************************************************************************)
(* The specifications                                                      *)
(***************************************************************************)
InitDedup ==
    /\ InitDedupVars
    /\ InitFirstVars /\ first_shreds_received = {}
    /\ InitRekeyVars
    /\ InitWorkerVars
NextDedup ==
    \/ \E shred \in InputShreds :
          FilterShred(shred) /\ UNCHANGED <<firstVars, rekeyVars, workerVars, batchVars, lruVars, lockVars, resubmitVars>>
    \/ \E sd \in Seeds : ClearAndReset(sd) /\ UNCHANGED <<firstVars, rekeyVars, workerVars, batchVars, lruVars, lockVars, resubmitVars>>
SpecDedup == InitDedup /\ [][NextDedup]_vars

\* SpecLru: SpecDedup with the history of the keys submitted.
\* a call on `key` makes it the most recently touched key
TouchKey(order, key) == Append(SelectSeq(order, LAMBDA k : k # key), key)

\* line 160: every call looks its key up, whatever it returns
Touch(key) ==
    /\ touched' = TouchKey(touched, key)
    /\ touchedSinceClear' = TouchKey(touchedSinceClear, key)

\* line 219: the clear empties the cache
Forget ==
    /\ touchedSinceClear' = <<>>
    /\ UNCHANGED touched

\* two shreds of every key: a call returns false on a new payload and true on a repeat
LruShreds == {MkShred(k, p) : k \in ShredKeys, p \in {0, 1}}

InitLru == InitDedup
NextLru ==
    \/ \E shred \in LruShreds :
          /\ FilterShred(shred)
          /\ Touch(KeyOf(shred))
          /\ UNCHANGED <<firstVars, rekeyVars, workerVars, batchVars, lockVars, resubmitVars>>
    \/ \E sd \in Seeds :
          /\ ClearAndReset(sd)
          /\ Forget
          /\ UNCHANGED <<firstVars, rekeyVars, workerVars, batchVars, lockVars, resubmitVars>>
SpecLru == InitLru /\ [][NextLru]_vars

InitFirst == InitDedupVars /\ InitFirstVars /\ InitRekeyVars /\ InitWorkerVars
NextFirst ==
    \/ \E w \in Workers : SnapshotBanks(w) /\ UNCHANGED <<dedupVars, rekeyVars, workerVars, batchVars, lruVars, lockVars, resubmitVars>>
    \/ \E r \in RootInputs : AdvanceRoot(r) /\ UNCHANGED <<dedupVars, rekeyVars, workerVars, batchVars, lruVars, lockVars, resubmitVars>>
    \/ \E w \in Workers, s \in SlotInputs :
          FirstShred(w, s) /\ UNCHANGED <<dedupVars, rekeyVars, workerVars, batchVars, lruVars, lockVars, resubmitVars>>
SpecFirst == InitFirst /\ [][NextFirst]_vars

InitRekey == InitDedup
NextRekey ==
    \/ Tick /\ UNCHANGED <<firstVars, workerVars, batchVars, lruVars, lockVars, resubmitVars>>
    \/ \E w \in Workers : ReadNow(w) /\ UNCHANGED <<firstVars, workerVars, batchVars, lruVars, lockVars, resubmitVars>>
    \/ \E w \in Workers : LoadPrev(w) /\ UNCHANGED <<firstVars, workerVars, batchVars, lruVars, lockVars, resubmitVars>>
    \/ \E w \in Workers : SkipReset(w) /\ UNCHANGED <<firstVars, workerVars, batchVars, lruVars, lockVars, resubmitVars>>
    \/ \E w \in Workers : CompareExchangeWin(w) /\ UNCHANGED <<firstVars, workerVars, batchVars, lruVars, lockVars, resubmitVars>>
    \/ \E w \in Workers : CompareExchangeLose(w) /\ UNCHANGED <<firstVars, workerVars, batchVars, lruVars, lockVars, resubmitVars>>
    \/ \E w \in Workers : ClearFilter(w) /\ UNCHANGED <<firstVars, workerVars, batchVars, lruVars, lockVars, resubmitVars>>
    \/ \E w \in Workers : LoopFilter(w) /\ UNCHANGED <<firstVars, workerVars, batchVars, lruVars, lockVars, resubmitVars>>
    \/ \E w \in Workers : EndIteration(w) /\ UNCHANGED <<firstVars, workerVars, batchVars, lruVars, lockVars, resubmitVars>>
SpecRekey == InitRekey /\ [][NextRekey]_vars

InitWorker == InitDedup
NextWorker ==
    \/ \E b \in BatchInputs : SendBatch(b) /\ UNCHANGED <<rekeyVars, batchVars, lruVars, lockVars, resubmitVars>>
    \/ DropSender /\ UNCHANGED <<rekeyVars, batchVars, lruVars, lockVars, resubmitVars>>
    \/ \E w \in Workers : LockReceiver(w) /\ UNCHANGED <<rekeyVars, batchVars, lruVars, lockVars, resubmitVars>>
    \/ \E w \in Workers : RecvOk(w) /\ UNCHANGED <<rekeyVars, batchVars, lruVars, lockVars, resubmitVars>>
    \/ \E w \in Workers : RecvTimeout(w) /\ UNCHANGED <<rekeyVars, batchVars, lruVars, lockVars, resubmitVars>>
    \/ \E w \in Workers : RecvDisconnected(w) /\ UNCHANGED <<rekeyVars, batchVars, lruVars, lockVars, resubmitVars>>
    \/ \E w \in Workers : TryRecvOk(w) /\ UNCHANGED <<rekeyVars, batchVars, lruVars, lockVars, resubmitVars>>
    \/ \E w \in Workers : TryRecvErr(w) /\ UNCHANGED <<rekeyVars, batchVars, lruVars, lockVars, resubmitVars>>
    \/ \E w \in Workers : SkipRekey(w) /\ UNCHANGED <<rekeyVars, batchVars, lruVars, lockVars, resubmitVars>>
    \/ \E w \in Workers : WinRekey(w) /\ UNCHANGED <<rekeyVars, batchVars, lruVars, lockVars, resubmitVars>>
    \/ \E w \in Workers : FilterStep(w) /\ UNCHANGED <<rekeyVars, batchVars, lruVars, lockVars, resubmitVars>>
    \/ \E w \in Workers, view \in ViewInputs : SendStep(w, view) /\ UNCHANGED <<rekeyVars, batchVars, lruVars, lockVars, resubmitVars>>
    \/ \E w \in Workers : Publish(w) /\ UNCHANGED <<rekeyVars, batchVars, lruVars, lockVars, resubmitVars>>
SpecWorker == InitWorker /\ [][NextWorker]_vars

\* The threads are scheduled by the operating system: while some worker can take a
\* step, a worker's step is taken. (A worker is disabled only by another worker
\* holding the queue lock, so this is what fairness to each thread gives.)
SpecWorkerFair ==
    /\ InitWorker
    /\ [][NextWorker]_vars
    /\ WF_vars(\E w \in Workers : WorkerStep(w) /\ UNCHANGED <<rekeyVars, batchVars, lruVars, lockVars, resubmitVars>>)

\* SpecQueue: SpecWorker with the history of which worker received which batch.
\* The channel is first in, first out: the batch at the head of the queue is this
\* one in the order in which the producer sent them.
HeadId == batches_sent - Len(queue) + 1

\* lines 243 and 245: the receive moves the batch at the head of the queue to w
Take(w) ==
    /\ takenBy' = [takenBy EXCEPT ![HeadId] = @ \cup {w}]
    /\ UNCHANGED processedIds

\* the batches w received and whose shreds it has not all been through
HeldIds(w) == {id \in DOMAIN takenBy : w \in takenBy[id] /\ id \notin processedIds}

\* line 332 is reached: the for loop of lines 271-331 went through every shred of
\* the batches of this call
Finish(w) ==
    /\ processedIds' = processedIds \cup HeldIds(w)
    /\ UNCHANGED takenBy

InitQueue == InitDedup
NextQueue ==
    \/ \E b \in BatchInputs : SendBatch(b) /\ UNCHANGED <<rekeyVars, batchVars, lruVars, lockVars, resubmitVars>>
    \/ DropSender /\ UNCHANGED <<rekeyVars, batchVars, lruVars, lockVars, resubmitVars>>
    \/ \E w \in Workers : LockReceiver(w) /\ UNCHANGED <<rekeyVars, batchVars, lruVars, lockVars, resubmitVars>>
    \/ \E w \in Workers : RecvOk(w) /\ Take(w) /\ UNCHANGED <<rekeyVars, lruVars, lockVars, resubmitVars>>
    \/ \E w \in Workers : RecvTimeout(w) /\ UNCHANGED <<rekeyVars, batchVars, lruVars, lockVars, resubmitVars>>
    \/ \E w \in Workers : RecvDisconnected(w) /\ UNCHANGED <<rekeyVars, batchVars, lruVars, lockVars, resubmitVars>>
    \/ \E w \in Workers : TryRecvOk(w) /\ Take(w) /\ UNCHANGED <<rekeyVars, lruVars, lockVars, resubmitVars>>
    \/ \E w \in Workers : TryRecvErr(w) /\ UNCHANGED <<rekeyVars, batchVars, lruVars, lockVars, resubmitVars>>
    \/ \E w \in Workers : SkipRekey(w) /\ UNCHANGED <<rekeyVars, batchVars, lruVars, lockVars, resubmitVars>>
    \/ \E w \in Workers : WinRekey(w) /\ UNCHANGED <<rekeyVars, batchVars, lruVars, lockVars, resubmitVars>>
    \/ \E w \in Workers : FilterStep(w) /\ UNCHANGED <<rekeyVars, batchVars, lruVars, lockVars, resubmitVars>>
    \/ \E w \in Workers, view \in ViewInputs :
          SendStep(w, view) /\ UNCHANGED <<rekeyVars, batchVars, lruVars, lockVars, resubmitVars>>
    \/ \E w \in Workers : Publish(w) /\ Finish(w) /\ UNCHANGED <<rekeyVars, lruVars, lockVars, resubmitVars>>
SpecQueue == InitQueue /\ [][NextQueue]_vars

\* SpecResubmit: SpecWorker with the history of the shreds dropped at line 296.
\* A shred is on record while the entry that passed it lives: `passed` forgets it
\* when the filter is cleared or its key is evicted.
OnRecord(p, shred) == shred.payload \in {p[KeyOf(shred)][i] : i \in DOMAIN p[KeyOf(shred)]}

\* the shred a step dropped at line 296, if it did and the record of its pass was
\* still there
DroppedBy(d) ==
    IF d.op = "leader_unknown" /\ recordKept[d.by] THEN {d.shred} ELSE {}

\* a worker's record starts when line 272 passes its shred and ends when the key
\* leaves the cache, by a clear or by an eviction
TrackDropped ==
    /\ recordKept' = [w \in Workers |->
                         /\ wpc'[w] = "send"
                         /\ KeyOf(Head(shreds'[w])) \in CacheKeys(cache')
                         /\ (wpc[w] = "filter" \/ recordKept[w])]
    /\ droppedUnknown' =
          {s \in droppedUnknown \cup DroppedBy(lastDispatch') : OnRecord(passed', s)}

otherWorkerVars == <<rekeyVars, batchVars, lruVars, lockVars>>

InitResubmit == InitDedup
NextResubmit ==
    \/ \E b \in BatchInputs : SendBatch(b) /\ TrackDropped /\ UNCHANGED otherWorkerVars
    \/ DropSender /\ TrackDropped /\ UNCHANGED otherWorkerVars
    \/ \E w \in Workers : LockReceiver(w) /\ TrackDropped /\ UNCHANGED otherWorkerVars
    \/ \E w \in Workers : RecvOk(w) /\ TrackDropped /\ UNCHANGED otherWorkerVars
    \/ \E w \in Workers : RecvTimeout(w) /\ TrackDropped /\ UNCHANGED otherWorkerVars
    \/ \E w \in Workers : RecvDisconnected(w) /\ TrackDropped /\ UNCHANGED otherWorkerVars
    \/ \E w \in Workers : TryRecvOk(w) /\ TrackDropped /\ UNCHANGED otherWorkerVars
    \/ \E w \in Workers : TryRecvErr(w) /\ TrackDropped /\ UNCHANGED otherWorkerVars
    \/ \E w \in Workers : SkipRekey(w) /\ TrackDropped /\ UNCHANGED otherWorkerVars
    \/ \E w \in Workers : WinRekey(w) /\ TrackDropped /\ UNCHANGED otherWorkerVars
    \/ \E w \in Workers : FilterStep(w) /\ TrackDropped /\ UNCHANGED otherWorkerVars
    \/ \E w \in Workers, view \in ViewInputs :
          SendStep(w, view) /\ TrackDropped /\ UNCHANGED otherWorkerVars
    \/ \E w \in Workers : Publish(w) /\ TrackDropped /\ UNCHANGED otherWorkerVars
SpecResubmit == InitResubmit /\ [][NextResubmit]_vars

InitDispatch == InitDedup
NextDispatch ==
    \E nodes \in PeerTables, shred_seed \in ShredSeeds, slot_leader \in Nodes,
       shred \in {WorkerShredA, WorkerShredB} :
        DispatchShred(nodes, shred_seed, slot_leader, shred)
SpecDispatch == InitDispatch /\ [][NextDispatch]_vars

(***************************************************************************)
(* SpecLocks: the guards a worker takes and drops on its way through the   *)
(* loop of lines 405-429, one step per acquire and per release.            *)
(*   shreds_receiver        Mutex, lines 242-251 (or to the `?` of 243)    *)
(*   bank_forks             RwLock read, lines 255-257                     *)
(*   shreds_received        Mutex, lines 159-178 and 218-222               *)
(*   first_shreds_received  Mutex, lines 190-204                           *)
(* The workers only read bank_forks; its writers are other threads of the  *)
(* validator, which take none of the other three locks.                    *)
(***************************************************************************)
MaxLockBatch == 2
Mutexes == {"shreds_receiver", "shreds_received", "first_shreds_received"}
Locks == Mutexes \cup {"bank_forks"}
Holders(l) == {w \in Workers : l \in held[w]}

\* Mutex::lock and RwLock::read return when the lock can be had: a mutex when no one
\* holds it, the read side when no writer does
CanTake(l) == l \in Mutexes => Holders(l) = {}

Acquire(w, l, from, to) ==
    /\ lpc[w] = from
    /\ CanTake(l)
    /\ held' = [held EXCEPT ![w] = @ \cup {l}]
    /\ lpc' = [lpc EXCEPT ![w] = to]

Release(w, l, from, to) ==
    /\ lpc[w] = from
    /\ held' = [held EXCEPT ![w] = @ \ {l}]
    /\ lpc' = [lpc EXCEPT ![w] = to]

Goto(w, from, to) ==
    /\ lpc[w] = from
    /\ lpc' = [lpc EXCEPT ![w] = to]
    /\ UNCHANGED held

\* line 242
TakeReceiver(w) ==
    Acquire(w, "shreds_receiver", "lock_receiver", "recv") /\ UNCHANGED <<todo, disconnected>>

\* lines 243-250: a batch of n shreds is received, under the guard
ReceiveBatch(w, n) ==
    /\ ~disconnected
    /\ Goto(w, "recv", "drop_receiver")
    /\ todo' = [todo EXCEPT ![w] = n]
    /\ UNCHANGED disconnected

\* line 243, Timeout: `?` returns and the guard is dropped on the way out
ReceiveTimeout(w) ==
    /\ ~disconnected
    /\ Release(w, "shreds_receiver", "recv", "lock_receiver")
    /\ UNCHANGED <<todo, disconnected>>

\* line 243, Disconnected: the same, and the loop breaks at line 422
ReceiveDisconnected(w) ==
    /\ Release(w, "shreds_receiver", "recv", "exited")
    /\ disconnected' = TRUE
    /\ UNCHANGED todo

\* as DropReceiver, with the guard left alive
DropReceiver_Forgotten(w) ==
    Goto(w, "drop_receiver", "read_banks") /\ UNCHANGED <<todo, disconnected>>

\* line 251: drop(shreds_receiver)
DropReceiver(w) ==
    Release(w, "shreds_receiver", "drop_receiver", "read_banks")
        /\ UNCHANGED <<todo, disconnected>>

\* line 255: bank_forks.read()
ReadBankForks(w) ==
    Acquire(w, "bank_forks", "read_banks", "banks_read") /\ UNCHANGED <<todo, disconnected>>

\* line 257: the block ends and the read guard with it
DropBankForks(w) ==
    Release(w, "bank_forks", "banks_read", "maybe_reset") /\ UNCHANGED <<todo, disconnected>>

\* lines 213-217: the interval has not passed or the compare_exchange failed
ResetLost(w) == Goto(w, "maybe_reset", "for") /\ UNCHANGED <<todo, disconnected>>

\* lines 213-217: the compare_exchange succeeded
ResetWon(w) == Goto(w, "maybe_reset", "lock_clear") /\ UNCHANGED <<todo, disconnected>>

\* line 218
LockForClear(w) ==
    Acquire(w, "shreds_received", "lock_clear", "clear") /\ UNCHANGED <<todo, disconnected>>

\* lines 219-222: clear, reset and the end of the block
LeaveClear(w) ==
    Release(w, "shreds_received", "clear", "for") /\ UNCHANGED <<todo, disconnected>>

\* line 271: the for loop takes the next shred
ForNext(w) ==
    /\ todo[w] > 0
    /\ Goto(w, "for", "lock_filter")
    /\ todo' = [todo EXCEPT ![w] = @ - 1]
    /\ UNCHANGED disconnected

\* line 271: no shred is left
ForEnd(w) ==
    /\ todo[w] = 0
    /\ Goto(w, "for", "publish")
    /\ UNCHANGED <<todo, disconnected>>

\* line 159
LockFilter(w) ==
    Acquire(w, "shreds_received", "lock_filter", "filter") /\ UNCHANGED <<todo, disconnected>>

\* lines 160-178: should_skip_retransmit returns true, and line 274 continues
LeaveFilterSkip(w) ==
    Release(w, "shreds_received", "filter", "for") /\ UNCHANGED <<todo, disconnected>>

\* lines 160-178: should_skip_retransmit returns false
LeaveFilterPass(w) ==
    Release(w, "shreds_received", "filter", "first_check") /\ UNCHANGED <<todo, disconnected>>

\* lines 279 and 186-188: no notifier, or a slot at or under the root
NoFirstLock(w) == Goto(w, "first_check", "dispatch") /\ UNCHANGED <<todo, disconnected>>

\* line 190
LockFirst(w) ==
    Acquire(w, "first_shreds_received", "first_check", "first")
        /\ UNCHANGED <<todo, disconnected>>

\* lines 191-204
LeaveFirst(w) ==
    Release(w, "first_shreds_received", "first", "dispatch") /\ UNCHANGED <<todo, disconnected>>

\* lines 293-331 end and the loop goes on
DispatchDone(w) == Goto(w, "dispatch", "for") /\ UNCHANGED <<todo, disconnected>>

\* line 303 panics on an empty neighbor list: the thread unwinds
DispatchPanic(w) ==
    /\ Goto(w, "dispatch", "panicked")
    /\ todo' = [todo EXCEPT ![w] = 0]
    /\ UNCHANGED disconnected

\* lines 332-355 and back to line 406
PublishDone(w) == Goto(w, "publish", "lock_receiver") /\ UNCHANGED <<todo, disconnected>>

\* the steps of one worker
LockStep(w) ==
    \/ TakeReceiver(w) \/ (\E n \in 1..MaxLockBatch : ReceiveBatch(w, n))
    \/ ReceiveTimeout(w) \/ ReceiveDisconnected(w) \/ DropReceiver(w)
    \/ ReadBankForks(w) \/ DropBankForks(w) \/ ResetLost(w) \/ ResetWon(w)
    \/ LockForClear(w) \/ LeaveClear(w) \/ ForNext(w) \/ ForEnd(w)
    \/ LockFilter(w) \/ LeaveFilterSkip(w) \/ LeaveFilterPass(w)
    \/ NoFirstLock(w) \/ LockFirst(w) \/ LeaveFirst(w)
    \/ DispatchDone(w) \/ DispatchPanic(w) \/ PublishDone(w)

otherVars == <<dedupVars, firstVars, rekeyVars, workerVars, batchVars, lruVars, resubmitVars>>

InitLocks == InitDedup
NextLocks ==
    \/ \E w \in Workers : TakeReceiver(w) /\ UNCHANGED otherVars
    \/ \E w \in Workers, n \in 1..MaxLockBatch : ReceiveBatch(w, n) /\ UNCHANGED otherVars
    \/ \E w \in Workers : ReceiveTimeout(w) /\ UNCHANGED otherVars
    \/ \E w \in Workers : ReceiveDisconnected(w) /\ UNCHANGED otherVars
    \/ \E w \in Workers : DropReceiver(w) /\ UNCHANGED otherVars
    \/ \E w \in Workers : ReadBankForks(w) /\ UNCHANGED otherVars
    \/ \E w \in Workers : DropBankForks(w) /\ UNCHANGED otherVars
    \/ \E w \in Workers : ResetLost(w) /\ UNCHANGED otherVars
    \/ \E w \in Workers : ResetWon(w) /\ UNCHANGED otherVars
    \/ \E w \in Workers : LockForClear(w) /\ UNCHANGED otherVars
    \/ \E w \in Workers : LeaveClear(w) /\ UNCHANGED otherVars
    \/ \E w \in Workers : ForNext(w) /\ UNCHANGED otherVars
    \/ \E w \in Workers : ForEnd(w) /\ UNCHANGED otherVars
    \/ \E w \in Workers : LockFilter(w) /\ UNCHANGED otherVars
    \/ \E w \in Workers : LeaveFilterSkip(w) /\ UNCHANGED otherVars
    \/ \E w \in Workers : LeaveFilterPass(w) /\ UNCHANGED otherVars
    \/ \E w \in Workers : NoFirstLock(w) /\ UNCHANGED otherVars
    \/ \E w \in Workers : LockFirst(w) /\ UNCHANGED otherVars
    \/ \E w \in Workers : LeaveFirst(w) /\ UNCHANGED otherVars
    \/ \E w \in Workers : DispatchDone(w) /\ UNCHANGED otherVars
    \/ \E w \in Workers : DispatchPanic(w) /\ UNCHANGED otherVars
    \/ \E w \in Workers : PublishDone(w) /\ UNCHANGED otherVars
SpecLocks == InitLocks /\ [][NextLocks]_vars

(***************************************************************************)
(* Properties of the dedup filter (SpecDedup)                              *)
(***************************************************************************)
\* the hashes stored for a key, none when the key has no entry
Stored(c, key) == IF key \in CacheKeys(c) THEN SentOf(c, key) ELSE <<>>
Elems(seq) == {seq[i] : i \in DOMAIN seq}
NoRepeat(seq) == \A i, j \in DOMAIN seq : i # j => seq[i] # seq[j]
OnlyKey(c, key) == SelectSeq(c, LAMBDA e : e.key = key)
CallOn(shred) == should_skip_retransmit(cache, seed, shred)

\* C1, as claimed: among the calls on one shred (same key, same payload) exactly one
\* returns false. Stated for ProbeShred.
C1_ExactlyOneFalsePerShred == probeCalls >= 1 => probeFalse = 1

\* C1, amended: while a key's entry lives (from its creation to the next clear of the
\* filter or eviction of the key), no payload of that key is passed (false returned)
\* more than once, whatever the order in which the workers' calls take the mutex.
C1_AtMostOneFalsePerEntry == \A k \in ShredKeys : NoRepeat(passed[k])

\* ProbeShred was submitted at least twice, passed once, and is refused now
C1_Witness ==
    /\ probeCalls >= 2
    /\ probeFalse = 1
    /\ ProbeShred.payload \in Elems(passed[ProbeKey])
    /\ CallOn(ProbeShred).ret

\* C2, as claimed: between two hasher resets at most MAX_DUPLICATE_COUNT calls for a
\* key return false. Stated for ProbeKey.
C2_AtMostTwoFalseBetweenResets == keyFalseSinceReset <= MAX_DUPLICATE_COUNT

\* C2, amended: while a key's entry lives (no reset and no eviction of the key in
\* between), at most MAX_DUPLICATE_COUNT calls for that key return false.
C2_AtMostTwoFalsePerEntry == \A k \in ShredKeys : Len(passed[k]) <= MAX_DUPLICATE_COUNT

\* a key passed two payloads and a third, never passed, payload is refused
C2_Witness ==
    \E k \in ShredKeys, p \in Payloads :
        /\ Len(passed[k]) = MAX_DUPLICATE_COUNT
        /\ p \notin Elems(passed[k])
        /\ ~Contains(Stored(cache, k), hash_shred(seed, MkShred(k, p)))
        /\ CallOn(MkShred(k, p)).ret

\* C3: in every reachable filter state, a call that returns false is followed, when
\* repeated at once with the same shred, by a call that returns true.
C3_SecondCallSkips ==
    \A shred \in InputShreds :
        LET first == CallOn(shred)
        IN  ~first.ret => should_skip_retransmit(first.cache, seed, shred).ret

\* a shred that was passed by an earlier call is refused in the state reached
C3_Witness ==
    \E k \in ShredKeys :
        /\ passed[k] # <<>>
        /\ CallOn(MkShred(k, passed[k][Len(passed[k])])).ret
        /\ cache[Len(cache)].key = k

\* C4: the three cases of the decision, on the map the cache represents: key absent ->
\* [h] stored, false; two or more hashes stored -> true and no stored hashes change;
\* one hash stored -> true if h equals it, otherwise h appended and false.
C4_ThreeCases ==
    \A shred \in InputShreds :
        LET key == KeyOf(shred)
            h == hash_shred(seed, shred)
            old == Stored(cache, key)
            r == CallOn(shred)
        IN  /\ key \in CacheKeys(cache) => Len(old) >= 1
            /\ key \notin CacheKeys(cache) =>
                   ~r.ret /\ Stored(r.cache, key) = <<h>>
            /\ (key \in CacheKeys(cache) /\ Len(old) >= 2) =>
                   r.ret /\ \A k \in ShredKeys : Stored(r.cache, k) = Stored(cache, k)
            /\ (key \in CacheKeys(cache) /\ Len(old) = 1) =>
                   IF h = old[1]
                   THEN r.ret /\ Stored(r.cache, key) = old
                   ELSE ~r.ret /\ Stored(r.cache, key) = <<old[1], h>>

\* a key holds two hashes and a payload never seen for it is refused, nothing stored
C4_Witness ==
    \E k \in ShredKeys, p \in Payloads :
        /\ Len(Stored(cache, k)) = 2
        /\ Len(passed[k]) = 2
        /\ p \notin Elems(passed[k])
        /\ ~Contains(Stored(cache, k), hash_shred(seed, MkShred(k, p)))
        /\ CallOn(MkShred(k, p)).ret
        /\ Stored(CallOn(MkShred(k, p)).cache, k) = Stored(cache, k)

\* C5, as claimed: a call for one key changes the stored hashes of no other key.
C5_OtherKeysUntouched ==
    \A shred \in InputShreds : \A k \in ShredKeys \ {KeyOf(shred)} :
        Stored(CallOn(shred).cache, k) = Stored(cache, k)

DataKey == <<1, 5, TRUE>>
CodingKey == <<1, 5, FALSE>>

\* C5, amended: the value returned depends on the entry of the call's own key alone;
\* every other key that stays in the cache keeps its hashes; another key loses its
\* entry only by eviction, being the least recently used one when the call inserts a
\* new key into a full cache; and once the DATA key holds two hashes, two CODING
\* payloads of the same (slot, index) with different hashes are each passed.
C5_KeysIndependentButEviction ==
    /\ \A shred \in InputShreds :
          LET key == KeyOf(shred)
              r == CallOn(shred)
          IN  /\ r.ret = should_skip_retransmit(OnlyKey(cache, key), seed, shred).ret
              /\ Stored(r.cache, key) =
                     Stored(should_skip_retransmit(OnlyKey(cache, key), seed, shred).cache, key)
              /\ \A k \in ShredKeys \ {key} :
                    \/ Stored(r.cache, k) = Stored(cache, k)
                    \/ /\ k \notin CacheKeys(r.cache)
                       /\ key \notin CacheKeys(cache)
                       /\ Len(cache) = DEFAULT_LRU_SIZE
                       /\ cache[1].key = k
    /\ (Len(Stored(cache, DataKey)) = MAX_DUPLICATE_COUNT /\ CodingKey \notin CacheKeys(cache)) =>
          \A p1, p2 \in Payloads :
              LET s1 == MkShred(CodingKey, p1)
                  s2 == MkShred(CodingKey, p2)
                  r1 == CallOn(s1)
              IN  hash_shred(seed, s1) # hash_shred(seed, s2) =>
                     ~r1.ret /\ ~should_skip_retransmit(r1.cache, seed, s2).ret

\* the DATA key holds two hashes and two CODING payloads were passed after that
C5_Witness ==
    /\ Len(Stored(cache, DataKey)) = MAX_DUPLICATE_COUNT
    /\ Len(passed[CodingKey]) = 2
    /\ cache[Len(cache)].key = CodingKey

(***************************************************************************)
(* Properties of the first-shred tracker (SpecFirst)                       *)
(***************************************************************************)
CheckBy(w, shred_slot) ==
    check_if_first_shred_received(shred_slot, first_shreds_received, root_bank[w])

\* C6: check_if_first_shred_received returns true at most once for a slot, over all
\* workers, root snapshots and garbage collections. Stated for FirstProbeSlot.
C6_FirstAtMostOncePerSlot == firstTrue <= 1

\* C7: the three cases of check_if_first_shred_received, for every worker's snapshot
\* and every slot: stale -> false, set unchanged; new -> true and the slot is in the
\* set; already in the set -> false, set unchanged.
C7_ThreeCases ==
    \A w \in Workers, s \in SlotInputs :
        LET r == CheckBy(w, s)
        IN  /\ s <= root_bank[w] => ~r.ret /\ r.set = first_shreds_received
            /\ (s > root_bank[w] /\ s \notin first_shreds_received) =>
                   r.ret /\ s \in r.set /\ r.set \subseteq first_shreds_received \cup {s}
            /\ (s > root_bank[w] /\ s \in first_shreds_received) =>
                   ~r.ret /\ r.set = first_shreds_received

\* a slot above a root > 0 was just reported first; repeating it gives false, and so
\* does the root slot itself
C7_Witness ==
    /\ lastFirst.op = "check"
    /\ lastFirst.ret
    /\ lastFirst.root > 0
    /\ \E w \in Workers :
          /\ root_bank[w] = lastFirst.root
          /\ ~CheckBy(w, lastFirst.slot).ret
          /\ root_bank[w] \in SlotInputs
          /\ root_bank[w] \notin first_shreds_received
          /\ ~CheckBy(w, root_bank[w]).ret

\* C8, as claimed: every slot held is strictly greater than the current root slot.
C8_AllAboveCurrentRoot == \A s \in first_shreds_received : s > bank_root

\* C8, amended: a slot is strictly greater than the root snapshot of the call that
\* inserts it, and a call that garbage-collects (its insert brings the set above
\* FIRST_SHREDS_GC_LEN entries) leaves only slots strictly greater than its root
\* snapshot. Slots at or below the current root otherwise stay in the set.
C8_AboveSnapshotWhenInsertedOrCollected ==
    lastFirst.op = "check" =>
        /\ lastFirst.ret =>
              lastFirst.slot \in first_shreds_received /\ lastFirst.slot > lastFirst.root
        /\ lastFirst.gc =>
              \A s \in first_shreds_received : s > lastFirst.root

\* a collection under an advanced root has just dropped entries
C8_Witness ==
    /\ lastFirst.op = "check"
    /\ lastFirst.gc
    /\ lastFirst.root > 0
    /\ Cardinality(first_shreds_received) < FIRST_SHREDS_GC_LEN

\* C9, as claimed: the set holds at most 100 slots plus the distinct slots observed
\* since the current root became the root.
C9_SizeBoundedByObserved ==
    Cardinality(first_shreds_received) <= FIRST_SHREDS_GC_LEN + Cardinality(observed)

\* C9, amended: right after a call that inserts a slot under root snapshot r, fewer
\* than FIRST_SHREDS_GC_LEN of the held slots are <= r, so the size is below
\* FIRST_SHREDS_GC_LEN plus the number of held slots above r.
C9_SizeBoundedBySlotsAboveSnapshot ==
    (lastFirst.op = "check" /\ lastFirst.ret) =>
        Cardinality(first_shreds_received) <
            FIRST_SHREDS_GC_LEN
              + Cardinality({s \in first_shreds_received : s > lastFirst.root})

\* an insert has left the set above FIRST_SHREDS_GC_LEN entries, after the root moved
C9_Witness ==
    /\ lastFirst.op = "check"
    /\ lastFirst.ret
    /\ bank_root > 0
    /\ Cardinality(first_shreds_received) > FIRST_SHREDS_GC_LEN

(***************************************************************************)
(* Properties of the rekey (SpecRekey)                                     *)
(***************************************************************************)
CountBy(log, w) == Cardinality({i \in DOMAIN log : log[i].by = w})

\* C10, as claimed: at most one clear of the filter within any 1 s window, that is,
\* two consecutive clears are at least UPDATE_INTERVAL_MS apart.
C10_OneClearPerWindow ==
    \A i \in 1..(Len(clears) - 1) : clears[i + 1].at - clears[i].at >= UPDATE_INTERVAL_MS

\* C10, amended: the timestamps installed by successful compare-exchanges are more
\* than UPDATE_INTERVAL_MS apart and no two of them replaced the same prev, so of the
\* workers racing on one value of hasher_reset_ts at most one wins; each win is
\* followed by exactly one clear, made by the winner; a worker that skipped or lost
\* the compare-exchange never clears.
C10_OneWinPerInterval ==
    /\ \A i \in 1..(Len(wins) - 1) : wins[i + 1].ts - wins[i].ts > UPDATE_INTERVAL_MS
    /\ \A i, j \in DOMAIN wins : i # j => wins[i].prev # wins[j].prev
    /\ \A w \in Workers :
          CountBy(clears, w) + (IF pc[w] = "clear" THEN 1 ELSE 0) = CountBy(wins, w)
    /\ Len(wins) > 0 => hasher_reset_ts = wins[Len(wins)].ts

\* two rekeys were made and some worker lost a compare-exchange
C10_Witness ==
    /\ Len(clears) >= 2
    /\ casLost
    /\ cache # <<>>

\* the hashes the hasher gives under a seed
HashesUnder(sd) == {hash_shred(sd, MkShred(k, p)) : k \in ShredKeys, p \in Payloads}

\* C19: the clear of the filter and the reset of the hasher are one critical section
\* of the filter's mutex. In every state a worker can find when it takes the mutex,
\* every hash held in the cache was computed under the hasher's current seeds, and
\* the step in which the winner of a rekey leaves its critical section leaves the
\* cache empty.
C19_ClearAndResetAtomic ==
    /\ [](\A i \in DOMAIN cache : Elems(cache[i].sent) \subseteq HashesUnder(seed))
    /\ [][(\E w \in Workers : pc[w] = "clear" /\ pc'[w] # "clear") => cache' = <<>>]_vars

\* after a rekey that changed the seeds, a shred has been stored under the new seeds
C19_Witness ==
    /\ Len(clears) >= 1
    /\ seed # 0
    /\ cache # <<>>
    /\ \A i \in DOMAIN cache : Elems(cache[i].sent) \cap HashesUnder(0) = {}

(***************************************************************************)
(* Properties of the LRU order (SpecLru)                                   *)
(***************************************************************************)
\* the keys of the cache, least recently used first
KeysOf(c) == [i \in DOMAIN c |-> c[i].key]
\* the DEFAULT_LRU_SIZE most recently touched keys of a history
RecentN(order) == SubSeq(order, Max(1, Len(order) - DEFAULT_LRU_SIZE + 1), Len(order))
TouchRank(key) == CHOOSE i \in DOMAIN touchedSinceClear : touchedSinceClear[i] = key
\* of the keys the cache holds, the one whose last call is the oldest
LeastRecentlyTouched ==
    CHOOSE k \in CacheKeys(cache) : \A j \in CacheKeys(cache) : TouchRank(k) <= TouchRank(j)

\* C22, as claimed: the cache never holds more than DEFAULT_LRU_SIZE keys, and the
\* keys it holds are exactly the DEFAULT_LRU_SIZE keys most recently submitted to
\* should_skip_retransmit, whatever the calls returned.
C22_RetainedWhileRecent ==
    /\ Len(cache) <= DEFAULT_LRU_SIZE
    /\ CacheKeys(cache) = Elems(RecentN(touched))

\* C22, amended: the cache never holds more than DEFAULT_LRU_SIZE keys; the keys it
\* holds are exactly the DEFAULT_LRU_SIZE keys most recently submitted since the
\* filter was last cleared, in the order of their last calls, whatever the calls
\* returned; and a call that brings a new key into a full cache removes the key
\* whose last call is the oldest, and no other.
C22_RetainedWhileRecentSinceClear ==
    /\ [](/\ Len(cache) <= DEFAULT_LRU_SIZE
          /\ KeysOf(cache) = RecentN(touchedSinceClear))
    /\ [][\A k \in ShredKeys :
            (Len(cache) = DEFAULT_LRU_SIZE /\ k \notin CacheKeys(cache)
                /\ k \in CacheKeys(cache'))
            => CacheKeys(cache') = (CacheKeys(cache) \ {LeastRecentlyTouched}) \cup {k}]_vars

\* after a clear, more keys than the cache holds have been submitted: a key was
\* evicted, and the oldest key the cache holds is not the oldest key submitted
C22_Witness ==
    /\ touched # touchedSinceClear
    /\ Len(touchedSinceClear) > DEFAULT_LRU_SIZE
    /\ Len(cache) = DEFAULT_LRU_SIZE
    /\ \E k \in ShredKeys :
          /\ cache[1].key = k
          /\ Len(passed[k]) = 1
          /\ TouchRank(k) > 1

(***************************************************************************)
(* Properties of the worker loop (SpecWorker, SpecWorkerFair)              *)
(***************************************************************************)
\* C11: once the Sender is dropped, every worker eventually leaves its loop, whatever
\* batches are still queued, when every thread that can run is run.
C11_WorkersTerminate == (~sender_alive) ~> (\A w \in Workers : wpc[w] \in Stopped)

\* the Sender was dropped with batches queued, and every worker has left by break
C11_Witness ==
    /\ ~sender_alive
    /\ pendingAtClose = 1
    /\ \A w \in Workers : wpc[w] = "exited"

MaxOf(S) == IF S = {} THEN 0 ELSE CHOOSE x \in S : \A y \in S : y <= x

\* C14: max_slots.retransmit never decreases, whatever the interleaving of the
\* workers, and it is the largest slot among the shreds that passed the filter in
\* the calls that have run to their end (0 when there is none): a finished call has
\* raised it to the slot of each shred it passed, and a shred the filter skipped
\* raises nothing.
C14_MaxSlotMonotone ==
    /\ [](max_slots_retransmit = MaxOf(published))
    /\ [][max_slots_retransmit' >= max_slots_retransmit]_vars

\* a call that passed a shred of slot 1 has published, while the shred of slot 2 was
\* passed only in a call that never reached the publish
C14_Witness ==
    /\ max_slots_retransmit = 1
    /\ published = {1}
    /\ \E w \in Workers : wpc[w] = "panicked" /\ 2 \in passedSlots[w]

C16_NotFoundContinues ==
    (lastDispatch.op = "send" /\ my_id \notin Range(lastDispatch.nodes)) =>
        /\ lastDispatch.neighbors = <<>>
        /\ lastDispatch.children = <<>>
        /\ lastDispatch.datagrams = <<>>
        /\ wpc[lastDispatch.by] = LoopPc(lastDispatch.rest)
        /\ shreds[lastDispatch.by] = lastDispatch.rest

C18_LeavesOnlyOnDisconnect ==
    \A w \in Workers :
        /\ wpc[w] \in Stopped => ret[w] = "Disconnected"
        /\ ret[w] \in {"Timeout", "Ok"} => wpc[w] \in Running

\* the workers inside the receive/drain section of lines 241-251
InReceive == {w \in Workers : wpc[w] \in {"recv", "drain"}}

\* C20: the receive of the input queue is exclusive and ends before the processing.
\* At most one worker is inside the receive/drain section, the worker inside it is
\* the holder of the receiver's mutex, and a worker that filters, selects peers,
\* sends or publishes, or that is back in its loop after Timeout or Ok, or that
\* has stopped after Disconnected or a panic, does not hold the mutex.
C20_ReceiveExclusive ==
    /\ Cardinality(InReceive) <= 1
    /\ \A w \in Workers : (receiver_lock = w) <=> (w \in InReceive)
    /\ \A w \in Workers :
          wpc[w] \in {"rekey", "filter", "send", "publish"} \cup Stopped => receiver_lock # w
    /\ \A w \in Workers :
          (wpc[w] = "lock" /\ ret[w] \in {"Timeout", "Ok"}) => receiver_lock # w
    /\ \A w \in Workers :
          (wpc[w] = "exited" /\ ret[w] = "Disconnected") => receiver_lock # w

\* one worker drains the queue under the mutex while another one, which has
\* released it, is sending a shred of its batch
C20_Witness ==
    \E w \in Workers, v \in Workers :
        /\ w # v
        /\ wpc[w] = "drain"
        /\ receiver_lock = w
        /\ wpc[v] = "send"
        /\ shreds[v] # <<>>

(***************************************************************************)
(* Properties of the queue (SpecQueue)                                     *)
(***************************************************************************)
BatchIds == 1..batches_sent
AllStopped == \A w \in Workers : wpc[w] \in Stopped

\* C21: every batch placed on the input queue is taken by exactly one worker. No
\* batch is received by two workers; a batch is processed only by the worker that
\* received it; a worker whose thread has ended has been through every shred of the
\* batches it received; and once every worker thread has ended, no batch is left on
\* the queue and every batch sent has been processed.
C21_BatchTakenOnce ==
    /\ \A id \in BatchIds : Cardinality(takenBy[id]) <= 1
    /\ \A id \in processedIds : Cardinality(takenBy[id]) = 1
    /\ \A w \in Workers : wpc[w] \in Stopped => HeldIds(w) = {}
    /\ AllStopped => (queue = <<>> /\ processedIds = BatchIds)

(***************************************************************************)
(* Properties of the locks (SpecLocks)                                     *)
(***************************************************************************)
LiveWorkers == {w \in Workers : lpc[w] \notin Stopped}

\* C23: no worker holds two of the shared locks (shreds_receiver, shreds_received,
\* first_shreds_received, the read side of bank_forks) at the same time; a mutex has
\* one holder at most; a worker whose thread has ended holds none; and while some
\* worker is live, some live worker can take its next step: in no reachable state
\* is every live worker waiting for a lock.
C23_NoDeadlock ==
    /\ \A w \in Workers : Cardinality(held[w]) <= 1
    /\ \A l \in Mutexes : Cardinality(Holders(l)) <= 1
    /\ \A w \in Workers : lpc[w] \in Stopped => held[w] = {}
    /\ LiveWorkers # {} => \E w \in LiveWorkers : ENABLED LockStep(w)

\* one worker waits for the filter's mutex, which the other holds after winning a
\* rekey, and the holder can go on
C23_Witness ==
    \E w \in Workers, v \in Workers :
        /\ w # v
        /\ lpc[w] = "lock_filter"
        /\ ~ENABLED LockStep(w)
        /\ lpc[v] = "clear"
        /\ held[v] = {"shreds_received"}

(***************************************************************************)
(* Properties of a resubmitted shred (SpecResubmit)                        *)
(***************************************************************************)
\* C24: the filter records a shred at line 272, before the leader lookup of line
\* 294. While no rekey and no eviction has removed the record of a shred that was
\* dropped for an unknown leader, a further call of should_skip_retransmit on that
\* shred returns true; the worker that meets it again in a batch skips it and goes
\* to the next shred; and no pass through lines 293-328 for a shred whose own record
\* is still there sends it, whatever leader is known by then.
C24_DroppedShredStaysDuplicate ==
    /\ [](\A s \in droppedUnknown : should_skip_retransmit(cache, seed, s).ret)
    /\ [][\A w \in Workers :
            (wpc[w] = "filter" /\ shreds'[w] # shreds[w]
                /\ Head(shreds[w]) \in droppedUnknown)
            => (wpc'[w] # "send" /\ shreds'[w] = Tail(shreds[w])
                  /\ lastDispatch' = NoDispatch)]_vars
    /\ [][(lastDispatch' # NoDispatch /\ lastDispatch'.op = "send"
                /\ recordKept[lastDispatch'.by])
            => lastDispatch'.shred \notin droppedUnknown]_vars

\* a shred that was dropped for an unknown leader, by a call that has returned, has
\* come again in a later batch and is at line 272, where the filter refuses it
C24_Witness ==
    \E w \in Workers, v \in Workers :
        /\ wpc[w] = "filter"
        /\ Head(shreds[w]) \in droppedUnknown
        /\ should_skip_retransmit(cache, seed, Head(shreds[w])).ret
        /\ wpc[v] = "lock"
        /\ ret[v] = "Ok"
        /\ batches_sent >= 2

(***************************************************************************)
(* Properties of the dispatch (SpecDispatch)                               *)
(***************************************************************************)
Ports == {"tvu", "tvu_forwards"}
CountIn(list, x) == Cardinality({j \in DOMAIN list : list[j] = x})
\* the datagrams of the last dispatch addressed to a port of a node
SentTo(to, port) ==
    Cardinality({j \in DOMAIN lastDispatch.datagrams :
                    /\ lastDispatch.datagrams[j].to = to
                    /\ lastDispatch.datagrams[j].port = port})
IsAnchor(neighbors) == neighbors # <<>> /\ neighbors[1] = my_id

\* C12: for a shred with a known leader, the anchor sends the payload once to the
\* forward address of every neighbor other than itself and once to the tvu address of
\* every child; a node that is not the anchor sends nothing to any neighbor and sends
\* the payload once to the forward address of every child; nothing else is sent.
C12_DispatchRule ==
    lastDispatch.op = "send" =>
        LET d == lastDispatch
            anchor == IsAnchor(d.neighbors)
            others == SelectSeq(d.neighbors, LAMBDA x : x # my_id)
        IN  /\ \A j \in DOMAIN d.datagrams : d.datagrams[j].payload = d.shred.payload
            /\ \A to \in Nodes :
                  IF anchor
                  THEN /\ SentTo(to, "tvu_forwards") = CountIn(others, to)
                       /\ SentTo(to, "tvu") = CountIn(d.children, to)
                  ELSE /\ SentTo(to, "tvu_forwards") = CountIn(d.children, to)
                       /\ SentTo(to, "tvu") = 0
                       /\ to \in Range(d.neighbors) => SentTo(to, "tvu_forwards") = 0
            /\ \A j \in DOMAIN d.datagrams : d.datagrams[j].to \in Nodes

\* the anchor of a full neighborhood with a full block of children has sent
C12_Witness ==
    /\ lastDispatch.op = "send"
    /\ IsAnchor(lastDispatch.neighbors)
    /\ Len(lastDispatch.neighbors) = DATA_PLANE_FANOUT
    /\ Len(lastDispatch.children) = DATA_PLANE_FANOUT
    /\ Len(lastDispatch.datagrams) = 2 * DATA_PLANE_FANOUT - 1

\* C13: whatever the shred, the seed, the leader and the membership, no datagram is
\* addressed to the local node: it is not in the neighbors[1..] slice the anchor uses
\* and not among the children.
C13_SelfExclusion ==
    lastDispatch.op = "send" =>
        /\ \A j \in DOMAIN lastDispatch.datagrams : lastDispatch.datagrams[j].to # my_id
        /\ my_id \notin Range(lastDispatch.children)
        /\ IsAnchor(lastDispatch.neighbors) => my_id \notin Range(Tail(lastDispatch.neighbors))

\* the local node is in its neighborhood, behind the anchor, and has sent to a child
C13_Witness ==
    /\ lastDispatch.op = "send"
    /\ my_id \in Range(lastDispatch.neighbors)
    /\ ~IsAnchor(lastDispatch.neighbors)
    /\ lastDispatch.datagrams # <<>>

====
